---- MODULE Spec2Model ----
(***************************************************************************)
(* GenericBTDevice (generic_bt_api/device.py): the connection life cycle   *)
(* and the retry loop of write_gatt / read_gatt, run by asyncio tasks.     *)
(*                                                                         *)
(* asyncio is cooperative: a task runs without interruption from one       *)
(* suspension point to the next.  The suspension points of the device are  *)
(*   - waiting for the lock when it is taken          (pc = "lock_wait")   *)
(*   - entering the BleakClient context (connect)     (pc = "connecting")  *)
(*   - client.disconnect()                            (pc = "disc_wait")   *)
(*   - closing the exit stack (client.__aexit__)      (pc = "close_wait")  *)
(*   - write_gatt_char / read_gatt_char               (pc = "gatt")        *)
(*   - asyncio.sleep between attempts                 (pc = "sleep")       *)
(* Every action below is one such run: it starts where a task resumes and  *)
(* ends where the task suspends again or its call ends.  The code between  *)
(* is written as operators from a state record to a state record, named    *)
(* after the methods they model, and composed as the code composes them.   *)
(***************************************************************************)
EXTENDS Integers, Sequences, FiniteSets, TLC

\* device.py:13
RETRY_ATTEMPTS == 2

\* Number of calls of the device's members started in a run.
MaxCalls == 3

\* The asyncio tasks that call into the one device.
Tasks == {1, 2}

\* None, for _client and for a task's local client variable.
None == 0

\* Identities of BleakClient objects.  An identity is taken again only when
\* nothing refers to the object any more.
ClientIds == 1 .. (2 * Cardinality(Tasks) + 2)

VARIABLES
    client,        \* self._client (None or a client identity)
    client_stack,  \* the contexts self._client_stack holds (set of clients)
    lock,          \* self._lock: None, or the task that holds it
    waiters,       \* self._lock's FIFO queue of waiting tasks
    is_connected,  \* the clients whose is_connected is True
    pc,            \* each task's suspension point; "done" as its call ends,
                   \* "idle" between calls
    op,            \* each task's current (or last) call
    attempt,       \* the loop variable of write_gatt / read_gatt
    local_client,  \* the local `client` of write_gatt / read_gatt
    pending,       \* the BleakClient a task is connecting
    closing,       \* the contexts a task popped and is closing
    site,          \* where a task waits for the lock
    ret,           \* which call of disconnect() a task is in
    exc,           \* the exception a task's handler is handling
    result,        \* how each task's last call ended
    log,           \* the events of each task's current (or last) call
    joined,        \* the task queued for the lock in get_client while
                   \* another task's connect attempt was in flight, and its
                   \* get_client has not ended yet
    ncalls,        \* calls started so far
    prev,          \* the caller's previous call (recorded as log is)
    input,         \* the arguments of each task's write_gatt / read_gatt:
                   \* << target_uuid_str >> or << target_uuid_str, data >>
    uuid_in,       \* a UUID string, and whether the caller wraps it in
    braces_in,     \* braces when passing it as target_uuid_str
    data_in,       \* the payload string the caller passes as data
    step,          \* how far the call with these arguments has come
    target_uuid,   \* write_gatt's target_uuid
    data_as_bytes, \* write_gatt's data_as_bytes
    value,         \* the bytes on the characteristic, as read_gatt returns them
    rehex,         \* these bytes encoded as hex again
    device_type,   \* light: entry.data["device_type"]
    is_on,         \* light: self._is_on ("None", "True" or "False")
    brightness,    \* light: self._brightness (NoBrightness for None)
    light_pc,      \* light: "idle", or "writing" while write_gatt is awaited
    light_op,      \* light: the current (or last) call
    kwargs,        \* light: kwargs.get(ATTR_BRIGHTNESS) of that call
    written,       \* light: the write_gatt calls of that call, as
                   \* << target_uuid_str, data >>
    published,     \* light: the async_write_ha_state calls of that call
    write_outcome, \* light: how the write_gatt of that call ended
    light_result,  \* light: how that call ended for its caller
    names,              \* config flow: the local name of each device
    service_uuids,      \* config flow: the service UUIDs each device advertises
    configured,         \* config flow: addresses that have a config entry
    discovery_info,     \* config flow: self._discovery_info
    discovered_devices, \* config flow: self._discovered_devices (its keys)
    user_input,         \* config flow: user_input[CONF_ADDRESS] of the step
    flow_pc,            \* config flow: "init", "form", "update", "stop", "done"
    flow_result,        \* config flow: what the last step gave
    errors,             \* config flow: errors["base"] of the last step
    entry,              \* config flow: the entry created
    flow_events,        \* config flow: the device calls of the last step
    twin_w,        \* a device on which write_gatt is called, as a State
    twin_r,        \* a device on which read_gatt is called, as a State
    stopped,       \* history: a stop() has returned, and no write_gatt,
                   \* read_gatt or get_client was called since
    solo           \* TRUE: one task calls, and the events of its calls are
                   \* recorded; FALSE: all tasks call, nothing is recorded

vars == << client, client_stack, lock, waiters, is_connected, pc, op,
           attempt, local_client, pending, closing, site, ret, exc, result,
           log, joined, ncalls, prev, input, solo,
           uuid_in, braces_in, data_in, step, target_uuid, data_as_bytes,
           value, rehex, device_type, is_on, brightness, light_pc, light_op,
           kwargs, written, published, write_outcome, light_result, names,
           service_uuids,
           configured,
           discovery_info, discovered_devices, user_input, flow_pc,
           flow_result, errors, entry, flow_events, stopped, twin_w, twin_r >>

\* The variables of the device and of its callers' tasks.
device_vars ==
    << client, client_stack, lock, waiters, is_connected, pc, op, attempt,
       local_client, pending, closing, site, ret, exc, result, log, joined,
       ncalls, prev, input, stopped, solo >>

\* The variables of one call followed through its arguments.
args_vars ==
    << uuid_in, braces_in, data_in, step, target_uuid, data_as_bytes, value, rehex >>

\* The two devices that are run side by side.
twin_vars == << twin_w, twin_r >>

\* The variables of the config flow.
flow_vars ==
    << names, service_uuids, configured, discovery_info, discovered_devices,
       user_input, flow_pc, flow_result, errors, entry, flow_events >>

\* The variables of the light entity.
light_vars ==
    << device_type, is_on, brightness, light_pc, light_op, kwargs, written,
       published, write_outcome, light_result >>

\* The state as one record, for the operators that model the code.
State ==
    [ client |-> client, client_stack |-> client_stack, lock |-> lock,
      waiters |-> waiters, is_connected |-> is_connected,
      pc |-> pc, op |-> op, attempt |-> attempt,
      local_client |-> local_client, pending |-> pending,
      closing |-> closing, site |-> site, ret |-> ret, exc |-> exc,
      result |-> result, log |-> log, joined |-> joined, ncalls |-> ncalls,
      prev |-> prev, input |-> input, solo |-> solo ]

\* The client objects something still refers to.
InUse(s) ==
    ({s.client} \cup s.client_stack
       \cup {s.local_client[t] : t \in Tasks}
       \cup {s.pending[t] : t \in Tasks}
       \cup UNION {s.closing[t] : t \in Tasks}) \ {None}

\* What the code cannot read any more is forgotten: is_connected of a client
\* that is not self._client (the code reads it of self._client only), and
\* the locals of a task outside their scope.
Collect(s) ==
    [s EXCEPT
       !.is_connected = @ \cap {s.client},
       !.local_client = [t \in Tasks |->
            IF \/ s.pc[t] \in {"gatt", "done"}
               \/ s.pc[t] = "lock_wait" /\ s.site[t] = "handler"
            THEN @[t] ELSE None],
       !.site = [t \in Tasks |-> IF s.pc[t] = "lock_wait" THEN @[t] ELSE "none"],
       !.ret = [t \in Tasks |->
            IF s.pc[t] \in {"disc_wait", "close_wait"} THEN @[t] ELSE "none"],
       !.exc = [t \in Tasks |->
            IF \/ s.pc[t] \in {"disc_wait", "close_wait"} /\ s.ret[t] \in {"except", "handler"}
               \/ s.pc[t] = "lock_wait" /\ s.site[t] = "handler"
            THEN @[t] ELSE "none"]]

\* The next state is the record s.
Becomes(s0) ==
    LET s == Collect(s0) IN
    /\ client' = s.client
    /\ client_stack' = s.client_stack
    /\ lock' = s.lock
    /\ waiters' = s.waiters
    /\ is_connected' = s.is_connected
    /\ pc' = s.pc
    /\ op' = s.op
    /\ attempt' = s.attempt
    /\ local_client' = s.local_client
    /\ pending' = s.pending
    /\ closing' = s.closing
    /\ site' = s.site
    /\ ret' = s.ret
    /\ exc' = s.exc
    /\ result' = s.result
    /\ log' = s.log
    /\ joined' = s.joined
    /\ ncalls' = s.ncalls
    /\ prev' = s.prev
    /\ input' = s.input
    /\ stopped' =
          IF \E t \in Tasks : /\ pc[t] # "done" /\ s.pc[t] = "done"
                              /\ s.op[t] = "stop" /\ s.result[t] = "ok"
          THEN TRUE
          ELSE IF \E t \in Tasks : /\ pc[t] = "idle" /\ s.pc[t] # "idle"
                                   /\ s.op[t] \in {"write", "read", "get_client"}
               THEN FALSE
               ELSE stopped
    /\ UNCHANGED args_vars
    /\ UNCHANGED light_vars
    /\ UNCHANGED flow_vars
    /\ UNCHANGED twin_vars
    /\ solo' = s.solo

\* BleakClient(self._ble_device, timeout=30.0): a new object.
NewClient(s) == CHOOSE c \in ClientIds \ InUse(s) : \A d \in ClientIds \ InUse(s) : c <= d

\* An event of the task's call is recorded.
Emit(s, t, e) == IF s.solo THEN [s EXCEPT !.log[t] = Append(@, e)] ELSE s

\* Exception kinds.  BleakErrorDiscovery is a BleakError whose message says
\* that service discovery has not been performed.
IsBleakError(k) == k \in {"BleakError", "BleakErrorDiscovery"}
IsConnectionError(k) == k \in {"IdealLedTimeout", "IdealLedBleakError"}

\* A call ends: returns ("ok") or raises r.
Finish(s, t, r) ==
    [s EXCEPT !.pc[t] = "done", !.result[t] = r, !.site[t] = "none",
              !.ret[t] = "none", !.exc[t] = "none"]

-----------------------------------------------------------------------------
(* The arguments of write_gatt / read_gatt.  A Python str is modelled as    *)
(* the sequence of its characters, a bytearray as the sequence of its       *)
(* bytes, a UUID as the sequence of the values of its 32 hex digits.        *)

\* The str s as the sequence of its characters.
Str(s) == [i \in 1 .. Len(s) |-> SubSeq(s, i, i)]

\* int(c, 16) for the hex digits.
HexValue ==
    [c \in {"0", "1", "2", "3", "4", "5", "6", "7", "8", "9"} |->
        CASE c = "0" -> 0 [] c = "1" -> 1 [] c = "2" -> 2 [] c = "3" -> 3
          [] c = "4" -> 4 [] c = "5" -> 5 [] c = "6" -> 6 [] c = "7" -> 7
          [] c = "8" -> 8 [] c = "9" -> 9]
    @@ [c \in {"a", "b", "c", "d", "e", "f"} |->
        CASE c = "a" -> 10 [] c = "b" -> 11 [] c = "c" -> 12
          [] c = "d" -> 13 [] c = "e" -> 14 [] c = "f" -> 15]
    @@ [c \in {"A", "B", "C", "D", "E", "F"} |->
        CASE c = "A" -> 10 [] c = "B" -> 11 [] c = "C" -> 12
          [] c = "D" -> 13 [] c = "E" -> 14 [] c = "F" -> 15]

IsHexDigit(c) == c \in DOMAIN HexValue

\* str.replace(old, ""): every occurrence of old is removed, left to right.
RECURSIVE replace(_, _)
replace(q, old) ==
    IF Len(q) < Len(old) THEN q
    ELSE IF SubSeq(q, 1, Len(old)) = old
    THEN replace(SubSeq(q, Len(old) + 1, Len(q)), old)
    ELSE << Head(q) >> \o replace(Tail(q), old)

\* str.strip(chars): the leading and trailing characters in chars are removed.
RECURSIVE lstrip(_, _)
lstrip(q, chars) ==
    IF q # << >> /\ Head(q) \in chars THEN lstrip(Tail(q), chars) ELSE q

RECURSIVE rstrip(_, _)
rstrip(q, chars) ==
    IF q # << >> /\ q[Len(q)] \in chars
    THEN rstrip(SubSeq(q, 1, Len(q) - 1), chars) ELSE q

strip(q, chars) == rstrip(lstrip(q, chars), chars)

\* What a parse gives: the value it returns, or the ValueError it raises.
Returns(v) == [raises |-> "none", value |-> v]
ValueError == [raises |-> "ValueError", value |-> << >>]

\* uuid.UUID(hex): ValueError, or the UUID.  The characters of the inputs
\* drawn here are hex digits, "-", "{", "}", ":", and letters that are not
\* hex digits; on these int(hex, 16) succeeds exactly when all are digits.
UUID(hex) ==
    LET h1 == replace(replace(hex, Str("urn:")), Str("uuid:"))
        h2 == replace(strip(h1, {"{", "}"}), Str("-"))
    IN  IF Len(h2) # 32 THEN ValueError
        ELSE IF \E i \in 1 .. Len(h2) : ~IsHexDigit(h2[i]) THEN ValueError
        ELSE Returns([i \in 1 .. Len(h2) |-> HexValue[h2[i]]])

\* Faulty variant: a UUID written with braces is refused.
target_uuid_of_refuses_braces(target_uuid_str) ==
    IF \E i \in 1 .. Len(target_uuid_str) : target_uuid_str[i] \in {"{", "}"}
    THEN ValueError
    ELSE UUID(target_uuid_str)

\* The target_uuid of write_gatt / read_gatt:
\* UUID(target_uuid_str.replace("{","").replace("}","")), or ValueError.
target_uuid_of(target_uuid_str) ==
    UUID(replace(replace(target_uuid_str, Str("{")), Str("}")))

\* bytearray.fromhex(data): ValueError, or the bytes.  Whitespace is
\* skipped before each byte; a byte is two hex digits next to each other.
RECURSIVE fromhex(_)

\* Faulty variant: the two digits of a byte are taken in the wrong order.
fromhex_swaps_digits(data) ==
    LET d == lstrip(data, {" "}) IN
    IF d = << >> THEN Returns(<< >>)
    ELSE IF Len(d) < 2 \/ ~IsHexDigit(d[1]) \/ ~IsHexDigit(d[2]) THEN ValueError
    ELSE LET rest == fromhex(SubSeq(d, 3, Len(d))) IN
         IF rest.raises # "none" THEN ValueError
         ELSE Returns(<< 16 * HexValue[d[2]] + HexValue[d[1]] >> \o rest.value)

fromhex(data) ==
    LET d == lstrip(data, {" "}) IN
    IF d = << >> THEN Returns(<< >>)
    ELSE IF Len(d) < 2 \/ ~IsHexDigit(d[1]) \/ ~IsHexDigit(d[2]) THEN ValueError
    ELSE LET rest == fromhex(SubSeq(d, 3, Len(d))) IN
         IF rest.raises # "none" THEN ValueError
         ELSE Returns(<< 16 * HexValue[d[1]] + HexValue[d[2]] >> \o rest.value)

\* bytes.hex(): two lower-case hex digits for each byte.
HexDigits ==
    << "0", "1", "2", "3", "4", "5", "6", "7", "8", "9", "a", "b", "c", "d", "e", "f" >>

RECURSIVE hex(_)
hex(b) ==
    IF b = << >> THEN << >>
    ELSE << HexDigits[(Head(b) \div 16) + 1], HexDigits[(Head(b) % 16) + 1] >>
         \o hex(Tail(b))

RECURSIVE lock_acquire(_, _, _)
RECURSIVE disconnect(_, _, _)
RECURSIVE get_client_raise(_, _, _)
RECURSIVE next_attempt(_, _)

\* Faulty variant: the lock stays held when its block is left.
lock_release_keeps_lock(s, t) == s

\* asyncio.Lock.release(): the lock is free; the first waiter runs later.
lock_release(s, t) == [s EXCEPT !.lock = None]

\* Faulty variant: the next attempt follows at once, without the delay.
sleep_skipped(s, t) == next_attempt(s, t)

\* asyncio.sleep(0.5 if attempt < 1 else 1.0)
sleep(s, t) == [Emit(s, t, "delay") EXCEPT !.pc[t] = "sleep"]

\* client.write_gatt_char(...) / client.read_gatt_char(...) is issued.
gatt_char(s, t) == [Emit(s, t, "gatt") EXCEPT !.pc[t] = "gatt"]

\* Faulty variant: a BleakError of the characteristic call is handled like a
\* connection error, without releasing the connection.
except_clauses_no_release(s, t, k) ==
    IF IsConnectionError(k) \/ IsBleakError(k)
    THEN IF s.attempt[t] >= RETRY_ATTEMPTS - 1
         THEN Finish(s, t, k)
         ELSE sleep(s, t)
    ELSE Finish(s, t, k)

\* Faulty variant: on the last attempt a connection error is dropped and the
\* error of the earlier characteristic call is raised in its place.
except_clauses_raises_write_error(s, t, k) ==
    IF IsConnectionError(k)
    THEN IF s.attempt[t] >= RETRY_ATTEMPTS - 1
         THEN Finish(s, t, "BleakError")
         ELSE sleep(s, t)
    ELSE IF IsBleakError(k)
    THEN lock_acquire([s EXCEPT !.exc[t] = k], t, "handler")
    ELSE Finish(s, t, k)

\* The except clauses of write_gatt / read_gatt, for an exception of kind k
\* raised in the try block.
except_clauses(s, t, k) ==
    IF IsConnectionError(k)
    THEN IF s.attempt[t] >= RETRY_ATTEMPTS - 1
         THEN Finish(s, t, k)
         ELSE sleep(s, t)
    ELSE IF IsBleakError(k)
    THEN lock_acquire([s EXCEPT !.exc[t] = k], t, "handler")
    ELSE Finish(s, t, k)

\* Faulty variant: the retry follows the release without the delay.
handler_resume_no_delay(s, t, outcome) ==
    LET s1 == lock_release(s, t) IN
    IF outcome # "ok"
    THEN Finish(s1, t, outcome)
    ELSE IF s.attempt[t] < RETRY_ATTEMPTS - 1
    THEN next_attempt(s1, t)
    ELSE Finish(s1, t, s.exc[t])

\* Faulty variant: after the release the loop always goes on.
handler_resume_always_retries(s, t, outcome) ==
    LET s1 == lock_release(s, t) IN
    IF outcome # "ok" THEN Finish(s1, t, outcome) ELSE sleep(s1, t)

\* After `async with self._lock: await self.disconnect()` in the BleakError
\* clause: disconnect() returned ("ok") or raised.
handler_resume(s, t, outcome) ==
    LET s1 == lock_release(s, t) IN
    IF outcome # "ok"
    THEN Finish(s1, t, outcome)
    ELSE IF s.attempt[t] < RETRY_ATTEMPTS - 1
    THEN sleep(s1, t)
    ELSE Finish(s1, t, s.exc[t])

\* Faulty variant: read_gatt handles a BleakError of the characteristic call
\* like a connection error, without releasing the connection.
read_except_clauses_no_release(s, t, k) ==
    IF IsConnectionError(k) \/ IsBleakError(k)
    THEN IF s.attempt[t] >= RETRY_ATTEMPTS - 1
         THEN Finish(s, t, k)
         ELSE sleep(s, t)
    ELSE Finish(s, t, k)

\* The except clauses of read_gatt, for an exception of kind k raised in
\* the try block.
read_except_clauses(s, t, k) ==
    IF IsConnectionError(k)
    THEN IF s.attempt[t] >= RETRY_ATTEMPTS - 1
         THEN Finish(s, t, k)
         ELSE sleep(s, t)
    ELSE IF IsBleakError(k)
    THEN lock_acquire([s EXCEPT !.exc[t] = k], t, "handler")
    ELSE Finish(s, t, k)

\* read_gatt after `async with self._lock: await self.disconnect()` in its
\* BleakError clause: disconnect() returned ("ok") or raised.
read_handler_resume(s, t, outcome) ==
    LET s1 == lock_release(s, t) IN
    IF outcome # "ok"
    THEN Finish(s1, t, outcome)
    ELSE IF s.attempt[t] < RETRY_ATTEMPTS - 1
    THEN sleep(s1, t)
    ELSE Finish(s1, t, s.exc[t])

\* The exception k reaches the except clauses of the loop t is in.
loop_except(s, t, k) ==
    IF s.op[t] = "read" THEN read_except_clauses(s, t, k) ELSE except_clauses(s, t, k)

\* stop(), after disconnect() returned or raised.
stop_resume(s, t, outcome) == Finish(lock_release(s, t), t, outcome)

\* Faulty variant: get_client() returns c with the lock still held.
get_client_return_keeps_lock(s, t, c) ==
    LET s1 == Emit([s EXCEPT !.local_client[t] = c, !.joined[t] = FALSE], t, "ret") IN
    IF s.op[t] = "get_client" THEN Finish(s1, t, "ok") ELSE gatt_char(s1, t)

\* get_client() returns c.
get_client_return(s, t, c) ==
    LET s1 == Emit(lock_release([s EXCEPT !.local_client[t] = c,
                                          !.joined[t] = FALSE], t), t, "ret") IN
    IF s.op[t] = "get_client" THEN Finish(s1, t, "ok") ELSE gatt_char(s1, t)

\* get_client() raises k.
get_client_raise(s, t, k) ==
    LET s1 == Emit(lock_release([s EXCEPT !.joined[t] = FALSE], t), t, "raise_" \o k) IN
    IF s.op[t] = "get_client" THEN Finish(s1, t, k) ELSE loop_except(s1, t, k)

\* self._client_stack.enter_async_context(BleakClient(...)) is awaited.
connect(s, t) ==
    LET c == NewClient(s) IN
    [Emit(s, t, "connect") EXCEPT !.pending[t] = c, !.pc[t] = "connecting",
                                  !.is_connected = @ \ {c}]

\* The error get_client raises for k.
Wrapped(k) == IF k = "TimeoutError" THEN "IdealLedTimeout" ELSE "IdealLedBleakError"

\* Faulty variant: the connection error is raised without the cleanup.
get_client_except_no_cleanup(s, t, k) == get_client_raise(s, t, Wrapped(k))

\* The except clauses of get_client, for an exception of kind k raised in
\* its try block: disconnect(), then raise the connection error.
get_client_except(s, t, k) == disconnect([s EXCEPT !.exc[t] = k], t, "except")

\* disconnect() returned or raised, in its caller.
disconnect_return(s, t, outcome) ==
    CASE s.ret[t] = "stop" -> stop_resume(s, t, outcome)
      [] s.ret[t] = "handler" ->
            IF s.op[t] = "read" THEN read_handler_resume(s, t, outcome)
            ELSE handler_resume(s, t, outcome)
      [] s.ret[t] = "stale" ->
            IF outcome = "ok" THEN connect(s, t) ELSE get_client_raise(s, t, outcome)
      [] s.ret[t] = "notconn" ->
            get_client_except(s, t, IF outcome = "ok" THEN "IdealLedBleakError" ELSE outcome)
      [] s.ret[t] = "except" ->
            get_client_raise(s, t, IF outcome = "ok" THEN Wrapped(s.exc[t]) ELSE outcome)

\* Faulty variant: the exit stack is not closed.
disconnect_stack_keeps_contexts(s, t) == disconnect_return(s, t, "ok")

\* disconnect(), from `await self._client_stack.pop_all().aclose()`.
disconnect_stack(s, t) ==
    IF s.client_stack # {}
    THEN [s EXCEPT !.closing[t] = s.client_stack, !.client_stack = {},
                   !.pc[t] = "close_wait"]
    ELSE disconnect_return(s, t, "ok")

\* Faulty variant: self._client is not cleared.
disconnect_finally_keeps_client(s, t) == disconnect_stack(s, t)

\* disconnect(), the finally clause: self._client = None.
disconnect_finally(s, t) ==
    disconnect_stack([s EXCEPT !.client = None], t)

\* disconnect(), called at r.
disconnect(s, t, r) ==
    LET s1 == Emit([s EXCEPT !.ret[t] = r], t, "disconnect_" \o r) IN
    IF s1.client # None
    THEN IF s1.client \in s1.is_connected
         THEN [s1 EXCEPT !.pc[t] = "disc_wait"]
         ELSE disconnect_finally(s1, t)
    ELSE disconnect_stack(s1, t)

\* Faulty variant: a client that is set is returned without asking is_connected.
get_client_locked_trusts_client(s, t) ==
    LET s1 == Emit(s, t, "enter") IN
    IF s1.client # None
    THEN get_client_return(s1, t, s1.client)
    ELSE connect(s1, t)

\* Faulty variant: a client that is set is always torn down and replaced.
get_client_locked_always_reconnects(s, t) ==
    LET s1 == Emit(s, t, "enter") IN
    IF s1.client # None
    THEN disconnect(s1, t, "stale")
    ELSE connect(s1, t)

\* get_client(), with the lock held.
get_client_locked(s, t) ==
    LET s1 == Emit(s, t, "enter") IN
    IF s1.client # None /\ s1.client \in s1.is_connected
    THEN get_client_return(s1, t, s1.client)
    ELSE IF s1.client # None
    THEN disconnect(s1, t, "stale")
    ELSE connect(s1, t)

\* The body of `async with self._lock:` at each place that takes the lock.
locked(s, t, where) ==
    CASE where = "get_client" -> get_client_locked(s, t)
      [] where = "stop" -> disconnect(s, t, "stop")
      [] where = "handler" -> disconnect(s, t, "handler")

\* Faulty variant: the lock is taken without waiting for its holder.
lock_acquire_no_wait(s, t, where) == locked([s EXCEPT !.lock = t], t, where)

\* asyncio.Lock.acquire(): at once when the lock is free and nobody waits,
\* else the task queues.
lock_acquire(s, t, where) ==
    IF s.lock = None /\ s.waiters = << >>
    THEN locked([s EXCEPT !.lock = t], t, where)
    ELSE [s EXCEPT !.waiters = Append(@, t), !.pc[t] = "lock_wait", !.site[t] = where,
                   !.joined[t] = where = "get_client"
                                   /\ \E u \in Tasks : s.pc[u] = "connecting"]

get_client(s, t) == lock_acquire(s, t, "get_client")

stop(s, t) == lock_acquire(s, t, "stop")

\* Faulty variant: the entered client is returned but not kept in
\* self._client.
connect_done_forgets_client(s, t, outcome) ==
    LET c == s.pending[t] IN
    get_client_return([s EXCEPT !.client_stack = @ \cup {c}, !.pending[t] = None,
                                !.is_connected = @ \cup {c}], t, c)

\* enter_async_context returned or raised.
connect_done(s, t, outcome) ==
    LET c == s.pending[t]
        entered == [s EXCEPT !.client_stack = @ \cup {c}, !.client = c,
                             !.pending[t] = None]
    IN  CASE outcome = "connected" ->
               get_client_return([entered EXCEPT !.is_connected = @ \cup {c}], t, c)
          [] outcome = "not_connected" ->
               disconnect(Emit(entered, t, "connect_" \o outcome), t, "notconn")
          [] OTHER ->
               get_client_except(Emit([s EXCEPT !.pending[t] = None], t,
                                      "connect_" \o outcome), t, outcome)

\* Faulty variant: when self._client.disconnect() raises, the rest of
\* disconnect() runs without the finally clause.
client_disconnect_done_keeps_on_error(s, t, ok) ==
    IF ok
    THEN disconnect_finally([s EXCEPT !.is_connected = @ \ {s.client}], t)
    ELSE disconnect_stack(s, t)

\* self._client.disconnect() returned (ok) or raised (caught and logged).
client_disconnect_done(s, t, ok) ==
    disconnect_finally(
        IF ok THEN [s EXCEPT !.is_connected = @ \ {s.client}] ELSE s, t)

\* aclose() returned or raised: the popped contexts have been exited.
aclose_done(s, t, outcome) ==
    disconnect_return(
        [s EXCEPT !.is_connected = IF outcome = "ok" THEN @ \ s.closing[t] ELSE @,
                  !.closing[t] = {}], t, outcome)

\* write_gatt_char / read_gatt_char returned or raised.
gatt_char_done(s, t, outcome) ==
    LET s1 == Emit(s, t, "gatt_" \o outcome) IN
    IF outcome = "ok" THEN Finish(s1, t, "ok") ELSE loop_except(s1, t, outcome)

\* The loop goes to its next attempt.
next_attempt(s, t) == get_client([s EXCEPT !.attempt[t] = @ + 1], t)

\* update(): pass.
update(s, t) == Finish(s, t, "ok")

\* update_from_advertisement(advertisement): pass.
update_from_advertisement(s, t) == Finish(s, t, "ok")

\* Faulty variant: connected is True whenever a client is set.
connected_ignores_link(s, t) ==
    Finish(s, t, IF s.client # None THEN "True" ELSE "False")

\* The property connected.
connected(s, t) ==
    Finish(s, t, IF s.client # None /\ s.client \in s.is_connected
                 THEN "True" ELSE "False")

\* Faulty variant: write_gatt goes to its loop with the payload unparsed.
write_gatt_parses_late(s, t, target_uuid_str, data) ==
    LET s1 == [s EXCEPT !.input[t] = << target_uuid_str, data >>] IN
    IF target_uuid_of(target_uuid_str).raises # "none"
    THEN Finish(s1, t, "ValueError")
    ELSE get_client(s1, t)

\* write_gatt, up to its loop: the UUID and the payload are parsed.
write_gatt(s, t, target_uuid_str, data) ==
    LET s1 == [s EXCEPT !.input[t] = << target_uuid_str, data >>] IN
    IF target_uuid_of(target_uuid_str).raises # "none"
    THEN Finish(s1, t, "ValueError")
    ELSE IF fromhex(data).raises # "none"
    THEN Finish(s1, t, "ValueError")
    ELSE get_client(s1, t)

\* read_gatt, up to its loop: the UUID is parsed.
read_gatt(s, t, target_uuid_str) ==
    LET s1 == [s EXCEPT !.input[t] = << target_uuid_str >>] IN
    IF target_uuid_of(target_uuid_str).raises # "none"
    THEN Finish(s1, t, "ValueError")
    ELSE get_client(s1, t)

\* A call starts.
call(s, t, o, target_uuid_str, data) ==
    LET s1 == [s EXCEPT !.op[t] = o, !.ncalls = @ + 1]
    IN  CASE o = "stop" -> stop(s1, t)
          [] o = "update" -> update(s1, t)
          [] o = "update_from_advertisement" -> update_from_advertisement(s1, t)
          [] o = "connected" -> connected(s1, t)
          [] o = "write" -> write_gatt(s1, t, target_uuid_str, data)
          [] o = "read" -> read_gatt(s1, t, target_uuid_str)
          [] OTHER -> get_client(s1, t)

-----------------------------------------------------------------------------

Ops == {"write", "read", "stop", "get_client", "update",
        "update_from_advertisement", "connected"}
ConnectOutcomes == {"connected", "not_connected", "TimeoutError", "BleakError", "Exception"}
CloseOutcomes == {"ok", "BleakError", "TimeoutError"}
GattOutcomes == {"ok", "BleakError", "BleakErrorDiscovery", "TimeoutError"}

\* The arguments the callers pass: the characteristic of light.py, a UUID
\* that is too short and one with a letter that is no hex digit; a payload
\* of one byte, one with a letter that is no hex digit and one of odd length.
TargetUuidStrs ==
    { Str("12345678-1234-5678-1234-56789abcdef1"), Str("12345678-1234"),
      Str("12345678-1234-5678-1234-56789abcdefg") }
DataStrs == { Str("01"), Str("0g"), Str("0") }

Start ==
    /\ client = None
    /\ client_stack = {}
    /\ lock = None
    /\ waiters = << >>
    /\ is_connected = {}
    /\ pc = [t \in Tasks |-> "idle"]
    /\ op = [t \in Tasks |-> "none"]
    /\ attempt = [t \in Tasks |-> 0]
    /\ local_client = [t \in Tasks |-> None]
    /\ pending = [t \in Tasks |-> None]
    /\ closing = [t \in Tasks |-> {}]
    /\ site = [t \in Tasks |-> "none"]
    /\ ret = [t \in Tasks |-> "none"]
    /\ exc = [t \in Tasks |-> "none"]
    /\ result = [t \in Tasks |-> "none"]
    /\ log = [t \in Tasks |-> << >>]
    /\ joined = [t \in Tasks |-> FALSE]
    /\ ncalls = 0
    /\ prev = [t \in Tasks |-> "none"]
    /\ input = [t \in Tasks |-> << >>]
    /\ stopped = FALSE

\* No call is followed through its arguments.
ArgsIdle ==
    /\ uuid_in = << >>
    /\ braces_in = FALSE
    /\ data_in = << >>
    /\ step = "none"
    /\ target_uuid = Returns(<< >>)
    /\ data_as_bytes = Returns(<< >>)
    /\ value = << >>
    /\ rehex = << >>

\* None, for self._brightness and for a brightness that is not passed.
NoBrightness == -1

\* Home Assistant's brightness scale is 0 .. MaxBrightness.
MaxBrightness == 255

\* GenericBTLight.__init__ for an entry of the device type d.
LightInit(d) ==
    /\ device_type = d
    /\ is_on = "None"
    /\ brightness = IF d = "glowdim" THEN MaxBrightness ELSE NoBrightness
    /\ light_pc = "idle"
    /\ light_op = "none"
    /\ kwargs = NoBrightness
    /\ written = << >>
    /\ published = 0
    /\ write_outcome = "none"
    /\ light_result = "none"

\* The devices in range, by address.
Addresses == {"AA:01", "AA:02"}

\* No device, no address.
NoDevice == "None"

\* Local names of devices.
LocalNames == {"GlowDim Lamp", "glowswitch", "ConnectFailDevice"}

\* ConfigFlow.__init__, with the names nm of the devices and the addresses
\* cf that are configured already.
FlowInit(nm, cf) ==
    /\ names = nm
    /\ configured = cf
    /\ discovery_info = NoDevice
    /\ discovered_devices = {}
    /\ user_input = NoDevice
    /\ flow_pc = "init"
    /\ flow_result = [type |-> "none"]
    /\ errors = "none"
    /\ entry = [type |-> "none"]
    /\ flow_events = << >>

\* The lists of service UUIDs a device advertises: none, unknown ones, and
\* the service UUIDs the tests of the flow name for the two device types.
ServiceUuidLists ==
    { {}, {"some-random-uuid-1234"}, {"GLOWDIM_SERVICE_UUID"},
      {"GLOWSWITCH_SERVICE_UUID"},
      {"GLOWDIM_SERVICE_UUID", "GLOWSWITCH_SERVICE_UUID"} }

\* The two devices after construction; the events of their calls are
\* recorded.
TwinInit ==
    /\ twin_w = [State EXCEPT !.solo = TRUE]
    /\ twin_r = [State EXCEPT !.solo = TRUE]

FlowIdle ==
    /\ FlowInit([a \in Addresses |-> "glowswitch"], {})
    /\ service_uuids = [a \in Addresses |-> {}]

Init ==
    /\ Start /\ solo = FALSE /\ ArgsIdle /\ LightInit("glowswitch") /\ FlowIdle
    /\ TwinInit

InitSolo ==
    /\ Start /\ solo = TRUE /\ ArgsIdle /\ LightInit("glowswitch") /\ FlowIdle
    /\ TwinInit

\* The tasks that call into the device.
Callers == IF solo THEN {CHOOSE t \in Tasks : \A u \in Tasks : t <= u} ELSE Tasks

\* No call is ending.  A call that ends is observed (pc = "done") and its
\* caller takes the result before anything else runs.
Quiet == \A t \in Tasks : pc[t] # "done"

\* The caller has the result: the call's locals and its record are dropped.
Return(t) ==
    /\ pc[t] = "done"
    /\ Becomes([State EXCEPT !.pc[t] = "idle", !.op[t] = "none", !.attempt[t] = 0,
                             !.local_client[t] = None, !.result[t] = "none",
                             !.log[t] = << >>, !.input[t] = << >>,
                             !.prev[t] = IF solo THEN op[t] ELSE "none"])

\* A task calls a method of the device, or reads its property connected.
Call(t, o) ==
    /\ t \in Callers
    /\ pc[t] = "idle"
    /\ ncalls < MaxCalls
    /\ \E target_uuid_str \in TargetUuidStrs, data \in DataStrs :
          Becomes(call(State, t, o, target_uuid_str, data))

\* The lock is free and t is the first waiter: t takes it and goes on.
LockGranted(t) ==
    /\ pc[t] = "lock_wait"
    /\ lock = None
    /\ waiters # << >>
    /\ Head(waiters) = t
    /\ Becomes(locked([State EXCEPT !.lock = t, !.waiters = Tail(@)], t, site[t]))

ConnectDone(t, outcome) ==
    /\ pc[t] = "connecting"
    /\ Becomes(connect_done(State, t, outcome))

ClientDisconnectDone(t, ok) ==
    /\ pc[t] = "disc_wait"
    /\ Becomes(client_disconnect_done(State, t, ok))

AcloseDone(t, outcome) ==
    /\ pc[t] = "close_wait"
    /\ Becomes(aclose_done(State, t, outcome))

GattCharDone(t, outcome) ==
    /\ pc[t] = "gatt"
    /\ Becomes(gatt_char_done(State, t, outcome))

SleepDone(t) ==
    /\ pc[t] = "sleep"
    /\ Becomes(next_attempt(State, t))

\* The link of a connected client drops: is_connected turns False.
LinkDrop(c) ==
    /\ c \in is_connected
    /\ Becomes([State EXCEPT !.is_connected = @ \ {c}])

Next ==
    \/ \E t \in Tasks : Return(t)
    \/ Quiet /\ \E t \in Tasks, o \in Ops : Call(t, o)
    \/ Quiet /\ \E t \in Tasks : LockGranted(t)
    \/ Quiet /\ \E t \in Tasks, outcome \in ConnectOutcomes : ConnectDone(t, outcome)
    \/ Quiet /\ \E t \in Tasks, ok \in BOOLEAN : ClientDisconnectDone(t, ok)
    \/ Quiet /\ \E t \in Tasks, outcome \in CloseOutcomes : AcloseDone(t, outcome)
    \/ Quiet /\ \E t \in Tasks, outcome \in GattOutcomes : GattCharDone(t, outcome)
    \/ Quiet /\ \E t \in Tasks : SleepDone(t)
    \/ Quiet /\ \E c \in ClientIds : LinkDrop(c)

Spec == Init /\ [][Next]_vars

\* A step of a task that can go on: a caller takes the result of its call,
\* the first waiter gets the free lock, a sleep ends, or a transport
\* primitive awaited (connect, disconnect, context close, read, write)
\* returns or raises.
Progress ==
    \/ \E t \in Tasks : Return(t)
    \/ Quiet /\ \E t \in Tasks :
          \/ LockGranted(t)
          \/ \E outcome \in ConnectOutcomes : ConnectDone(t, outcome)
          \/ \E ok \in BOOLEAN : ClientDisconnectDone(t, ok)
          \/ \E outcome \in CloseOutcomes : AcloseDone(t, outcome)
          \/ \E outcome \in GattOutcomes : GattCharDone(t, outcome)
          \/ SleepDone(t)

\* Where a task can be.
PcValues ==
    {"idle", "lock_wait", "connecting", "disc_wait", "close_wait", "gatt", "sleep", "done"}

\* Some task can go on: the condition under which Progress can happen.
CanProgress ==
    \/ \E t \in Tasks : pc[t] = "done"
    \/ \E t \in Tasks :
          \/ pc[t] \in {"connecting", "disc_wait", "close_wait", "gatt", "sleep"}
          \/ pc[t] = "lock_wait" /\ lock = None /\ waiters # << >> /\ Head(waiters) = t

\* The steps of Progress, told from the others by what they change: a task
\* moves, and no call is started.
ProgressStep ==
    /\ CanProgress
    /\ pc' \in [Tasks -> PcValues] \ {pc}
    /\ ncalls' = ncalls

\* The event loop runs a task that can go on, and every primitive awaited
\* ends.  Nothing obliges a caller to call, or a link to drop.
Fairness == WF_pc(ProgressStep)

\* The calls of the fair specification.
MaxFairCalls == 3

\* A task calls write_gatt, read_gatt or stop with well-formed arguments.
CallFair(t, o) ==
    /\ pc[t] = "idle"
    /\ ncalls < MaxFairCalls
    /\ Becomes(call(State, t, o, Str("12345678-1234-5678-1234-56789abcdef1"), Str("01")))

NextFair ==
    \/ Quiet /\ \E t \in Tasks, o \in {"write", "read", "stop"} : CallFair(t, o)
    \/ Quiet /\ \E c \in ClientIds : LinkDrop(c)
    \/ Progress

SpecFair == Init /\ [][NextFair]_vars /\ Fairness

\* One caller: the lock is never contended, so no task ever waits for it.
NextSolo ==
    \/ \E t \in Tasks : Return(t)
    \/ Quiet /\ \E t \in Tasks, o \in Ops : Call(t, o)
    \/ Quiet /\ \E t \in Tasks, outcome \in ConnectOutcomes : ConnectDone(t, outcome)
    \/ Quiet /\ \E t \in Tasks, ok \in BOOLEAN : ClientDisconnectDone(t, ok)
    \/ Quiet /\ \E t \in Tasks, outcome \in CloseOutcomes : AcloseDone(t, outcome)
    \/ Quiet /\ \E t \in Tasks, outcome \in GattOutcomes : GattCharDone(t, outcome)
    \/ Quiet /\ \E t \in Tasks : SleepDone(t)
    \/ Quiet /\ \E c \in ClientIds : LinkDrop(c)

SpecSolo == InitSolo /\ [][NextSolo]_vars

-----------------------------------------------------------------------------
(* One write_gatt followed through its arguments: the strings the caller    *)
(* passes, what write_gatt makes of them, the bytes it hands to             *)
(* write_gatt_char, and the same bytes read back and encoded as hex.        *)

\* UUID strings: the characteristic of light.py as written there, in upper
\* case, without dashes and as a URN; one too short, one with a letter that
\* is no hex digit.
UuidStrs ==
    { Str("12345678-1234-5678-1234-56789abcdef1"),
      Str("12345678-1234-5678-1234-56789ABCDEF1"),
      Str("12345678123456781234567890abcdef"),
      Str("urn:uuid:12345678-1234-5678-1234-56789abcdef1"),
      Str("12345678-1234"),
      Str("12345678-1234-5678-1234-56789abcdefg") }

\* Payload strings: those light.py writes, others fromhex accepts, and
\* others it refuses.
PayloadStrs ==
    { Str("01"), Str("00"), Str("64"), Str("ab"), Str("AB"), Str("0a 0B"),
      Str(" 01"), Str(""), Str("0g"), Str("0"), Str("0 1") }

\* The target_uuid_str the caller passes.
Passed(u, braces) == IF braces THEN Str("{") \o u \o Str("}") ELSE u

InitArgs ==
    /\ Start /\ solo = FALSE /\ LightInit("glowswitch") /\ FlowIdle /\ TwinInit
    /\ uuid_in \in UuidStrs
    /\ braces_in \in BOOLEAN
    /\ data_in \in PayloadStrs
    /\ step = "called"
    /\ target_uuid = Returns(<< >>)
    /\ data_as_bytes = Returns(<< >>)
    /\ value = << >>
    /\ rehex = << >>

\* write_gatt parses its arguments: the UUID first, then the payload.
ParseArgs ==
    /\ step = "called"
    /\ target_uuid' = target_uuid_of(Passed(uuid_in, braces_in))
    /\ data_as_bytes' = IF target_uuid'.raises = "none"
                        THEN fromhex(data_in) ELSE data_as_bytes
    /\ step' = IF target_uuid'.raises = "none" /\ data_as_bytes'.raises = "none"
               THEN "parsed" ELSE "raised"
    /\ UNCHANGED << uuid_in, braces_in, data_in, value, rehex >>
    /\ UNCHANGED device_vars
    /\ UNCHANGED light_vars
    /\ UNCHANGED flow_vars
    /\ UNCHANGED twin_vars

\* client.write_gatt_char(target_uuid, data_as_bytes, response=True): the
\* characteristic holds the bytes.
WriteGattChar ==
    /\ step = "parsed"
    /\ value' = data_as_bytes.value
    /\ step' = "written"
    /\ UNCHANGED << uuid_in, braces_in, data_in, target_uuid, data_as_bytes, rehex >>
    /\ UNCHANGED device_vars
    /\ UNCHANGED light_vars
    /\ UNCHANGED flow_vars
    /\ UNCHANGED twin_vars

\* A read_gatt of the same characteristic returns the bytes, and they are
\* encoded as hex.
ReadBack ==
    /\ step = "written"
    /\ rehex' = hex(value)
    /\ step' = "read"
    /\ UNCHANGED << uuid_in, braces_in, data_in, target_uuid, data_as_bytes, value >>
    /\ UNCHANGED device_vars
    /\ UNCHANGED light_vars
    /\ UNCHANGED flow_vars
    /\ UNCHANGED twin_vars

NextArgs == ParseArgs \/ WriteGattChar \/ ReadBack

SpecArgs == InitArgs /\ [][NextArgs]_vars

-----------------------------------------------------------------------------
(* write_gatt and read_gatt side by side: two devices, one caller each, the *)
(* one calls write_gatt and the other read_gatt with the same UUID, and     *)
(* every transport primitive ends in the same way on both.                  *)

\* The one caller of each device.
TwinTask == CHOOSE t \in Tasks : \A u \in Tasks : t <= u

\* The next states of the two devices are w and r.
TwinBecomes(w, r) ==
    /\ twin_w' = Collect(w)
    /\ twin_r' = Collect(r)
    /\ UNCHANGED << device_vars, args_vars, light_vars, flow_vars >>

\* Where the caller of the device s is.
TwinPc(s) == s.pc[TwinTask]

\* The caller has the result of the call of the device s.
returned(s, t) ==
    [s EXCEPT !.pc[t] = "idle", !.op[t] = "none", !.attempt[t] = 0,
              !.local_client[t] = None, !.result[t] = "none",
              !.log[t] = << >>, !.input[t] = << >>, !.prev[t] = s.op[t]]

TwinCall(target_uuid_str) ==
    /\ TwinPc(twin_w) = "idle"
    /\ twin_w.ncalls < MaxCalls
    /\ TwinBecomes(call(twin_w, TwinTask, "write", target_uuid_str, Str("01")),
                   call(twin_r, TwinTask, "read", target_uuid_str, Str("01")))

TwinReturn ==
    /\ TwinPc(twin_w) = "done"
    /\ TwinBecomes(returned(twin_w, TwinTask), returned(twin_r, TwinTask))

TwinConnectDone(outcome) ==
    /\ TwinPc(twin_w) = "connecting"
    /\ TwinBecomes(connect_done(twin_w, TwinTask, outcome),
                   connect_done(twin_r, TwinTask, outcome))

TwinClientDisconnectDone(ok) ==
    /\ TwinPc(twin_w) = "disc_wait"
    /\ TwinBecomes(client_disconnect_done(twin_w, TwinTask, ok),
                   client_disconnect_done(twin_r, TwinTask, ok))

TwinAcloseDone(outcome) ==
    /\ TwinPc(twin_w) = "close_wait"
    /\ TwinBecomes(aclose_done(twin_w, TwinTask, outcome),
                   aclose_done(twin_r, TwinTask, outcome))

TwinGattCharDone(outcome) ==
    /\ TwinPc(twin_w) = "gatt"
    /\ TwinBecomes(gatt_char_done(twin_w, TwinTask, outcome),
                   gatt_char_done(twin_r, TwinTask, outcome))

TwinSleepDone ==
    /\ TwinPc(twin_w) = "sleep"
    /\ TwinBecomes(next_attempt(twin_w, TwinTask), next_attempt(twin_r, TwinTask))

\* The links of both devices drop.
TwinLinkDrop ==
    /\ TwinPc(twin_w) # "done"
    /\ twin_w.is_connected # {}
    /\ TwinBecomes([twin_w EXCEPT !.is_connected = {}], [twin_r EXCEPT !.is_connected = {}])

NextTwin ==
    \/ \E target_uuid_str \in TargetUuidStrs : TwinCall(target_uuid_str)
    \/ TwinReturn
    \/ \E outcome \in ConnectOutcomes : TwinConnectDone(outcome)
    \/ \E ok \in BOOLEAN : TwinClientDisconnectDone(ok)
    \/ \E outcome \in CloseOutcomes : TwinAcloseDone(outcome)
    \/ \E outcome \in GattOutcomes : TwinGattCharDone(outcome)
    \/ TwinSleepDone
    \/ TwinLinkDrop

SpecTwin == Init /\ [][NextTwin]_vars

-----------------------------------------------------------------------------
(* GenericBTLight (light.py).  The light awaits self._device.write_gatt,    *)
(* which returns or raises; it keeps _is_on and _brightness.                *)

DeviceTypes == {"glowswitch", "glowdim"}

\* The characteristic the light writes.
LightCharacteristic == Str("12345678-1234-5678-1234-56789abcdef1")

\* Faulty variant: the quotient is truncated.
round_truncates(n, d) == n \div d

\* round(n / d) for n >= 0, d > 0: to the nearest integer, a tie to the
\* even one.
round(n, d) ==
    LET q == n \div d
        r == n % d
    IN  IF 2 * r < d THEN q
        ELSE IF 2 * r > d THEN q + 1
        ELSE IF q % 2 = 0 THEN q ELSE q + 1

\* max(0, min(100, round(current_ha_brightness / 255 * 100)))
device_brightness_value(current_ha_brightness) ==
    LET v == round(current_ha_brightness * 100, MaxBrightness) IN
    IF v > 100 THEN 100 ELSE IF v < 0 THEN 0 ELSE v

\* f"{v:02x}" for v < 256.
format_02x(v) == << HexDigits[(v \div 16) + 1], HexDigits[(v % 16) + 1] >>

InitLight ==
    /\ Start /\ solo = FALSE /\ ArgsIdle /\ FlowIdle /\ TwinInit
    /\ \E d \in DeviceTypes : LightInit(d)

\* async_turn_on(**kwargs), up to its await of write_gatt.  b is
\* kwargs.get(ATTR_BRIGHTNESS).
AsyncTurnOn(b) ==
    /\ light_pc = "idle"
    /\ light_op' = "turn_on"
    /\ kwargs' = b
    /\ brightness' = IF device_type = "glowdim" /\ b # NoBrightness
                     THEN b ELSE brightness
    /\ written' =
          IF device_type = "glowdim"
          THEN LET current_ha_brightness ==
                       IF brightness' # NoBrightness THEN brightness' ELSE MaxBrightness
               IN  << << LightCharacteristic,
                         format_02x(device_brightness_value(current_ha_brightness)) >> >>
          ELSE << << LightCharacteristic, Str("01") >> >>
    /\ published' = 0
    /\ write_outcome' = "none"
    /\ light_result' = "none"
    /\ light_pc' = "writing"
    /\ UNCHANGED << device_type, is_on >>
    /\ UNCHANGED device_vars
    /\ UNCHANGED args_vars
    /\ UNCHANGED flow_vars
    /\ UNCHANGED twin_vars

\* Faulty variant: turning off also resets the stored brightness.
AsyncTurnOff_resets_brightness ==
    /\ light_pc = "idle"
    /\ light_op' = "turn_off"
    /\ kwargs' = NoBrightness
    /\ brightness' = IF device_type = "glowdim" THEN MaxBrightness ELSE brightness
    /\ written' = << << LightCharacteristic, Str("00") >> >>
    /\ published' = 0
    /\ write_outcome' = "none"
    /\ light_result' = "none"
    /\ light_pc' = "writing"
    /\ UNCHANGED << device_type, is_on >>
    /\ UNCHANGED device_vars
    /\ UNCHANGED args_vars
    /\ UNCHANGED flow_vars
    /\ UNCHANGED twin_vars

\* async_turn_off(**kwargs), up to its await of write_gatt.
AsyncTurnOff ==
    /\ light_pc = "idle"
    /\ light_op' = "turn_off"
    /\ kwargs' = NoBrightness
    /\ written' = << << LightCharacteristic, Str("00") >> >>
    /\ published' = 0
    /\ write_outcome' = "none"
    /\ light_result' = "none"
    /\ light_pc' = "writing"
    /\ UNCHANGED << device_type, is_on, brightness >>
    /\ UNCHANGED device_vars
    /\ UNCHANGED args_vars
    /\ UNCHANGED flow_vars
    /\ UNCHANGED twin_vars

\* Faulty variant: the new state is not written to Home Assistant.
WriteGattReturned_no_publish ==
    /\ light_pc = "writing"
    /\ is_on' = IF light_op = "turn_on" THEN "True" ELSE "False"
    /\ write_outcome' = "ok"
    /\ light_result' = "ok"
    /\ light_pc' = "idle"
    /\ UNCHANGED << device_type, brightness, light_op, kwargs, written, published >>
    /\ UNCHANGED device_vars
    /\ UNCHANGED args_vars
    /\ UNCHANGED flow_vars
    /\ UNCHANGED twin_vars

\* write_gatt returned: _is_on is set and the state is written.
WriteGattReturned ==
    /\ light_pc = "writing"
    /\ is_on' = IF light_op = "turn_on" THEN "True" ELSE "False"
    /\ published' = published + 1
    /\ write_outcome' = "ok"
    /\ light_result' = "ok"
    /\ light_pc' = "idle"
    /\ UNCHANGED << device_type, brightness, light_op, kwargs, written >>
    /\ UNCHANGED device_vars
    /\ UNCHANGED args_vars
    /\ UNCHANGED flow_vars
    /\ UNCHANGED twin_vars

\* What write_gatt raises for the well-formed arguments of the light.
WriteGattErrors == {"IdealLedTimeout", "IdealLedBleakError", "BleakError", "TimeoutError"}

\* The exception k is an instance of Exception.
IsException(k) ==
    k \in {"IdealLedTimeout", "IdealLedBleakError", "BleakError", "TimeoutError",
           "ValueError", "NameError"}

\* Faulty variant: only the errors of Bleak are caught.
except_Exception_only_bleak(k) == IF IsBleakError(k) THEN "ok" ELSE k

\* `except Exception as e: _LOGGER.error(...)`: how the call ends when k was
\* raised in its try block.
except_Exception(k) == IF IsException(k) THEN "ok" ELSE k

\* write_gatt raised k.
WriteGattRaised(k) ==
    /\ light_pc = "writing"
    /\ write_outcome' = "raised"
    /\ light_result' = except_Exception(k)
    /\ light_pc' = "idle"
    /\ UNCHANGED << device_type, is_on, brightness, light_op, kwargs, written,
                    published >>
    /\ UNCHANGED device_vars
    /\ UNCHANGED args_vars
    /\ UNCHANGED flow_vars
    /\ UNCHANGED twin_vars

NextLight ==
    \/ \E b \in {NoBrightness} \cup (0 .. MaxBrightness) : AsyncTurnOn(b)
    \/ AsyncTurnOff
    \/ WriteGattReturned
    \/ \E k \in WriteGattErrors : WriteGattRaised(k)

SpecLight == InitLight /\ [][NextLight]_vars

\* bytes(s, "utf-8") for a string of decimal digits, as the tests of the
\* light spell the payload they expect.
bytes(s) == [i \in 1 .. Len(s) |-> 48 + HexValue[Str(s)[i]]]

\* What write_gatt hands to write_gatt_char for the data of the i-th
\* write_gatt call of the light.
Transmitted(i) == fromhex(written[i][2])

-----------------------------------------------------------------------------
(* ConfigFlow (config_flow.py).  The flow awaits device.update() and        *)
(* device.stop() of a GenericBTDevice it constructs.  update() of device.py *)
(* returns; the except clauses of the flow provide for an update() that     *)
(* raises, and the outcomes drawn here include it.                          *)

UpperCase == Str("ABCDEFGHIJKLMNOPQRSTUVWXYZ")
LowerCase == Str("abcdefghijklmnopqrstuvwxyz")

\* str.lower()
str_lower(q) ==
    [i \in 1 .. Len(q) |->
        IF \E k \in 1 .. 26 : UpperCase[k] = q[i]
        THEN LowerCase[CHOOSE k \in 1 .. 26 : UpperCase[k] = q[i]]
        ELSE q[i]]

\* sub in q
contains(q, sub) ==
    \E i \in 0 .. (Len(q) - Len(sub)) : SubSeq(q, i + 1, i + Len(sub)) = sub

\* The device type async_step_user derives from the local name.
device_type_of(local_name) ==
    IF contains(str_lower(Str(local_name)), Str("glowdim")) THEN "glowdim" ELSE "glowswitch"

\* config_flow.py defines and imports no BLEAK_EXCEPTIONS.
BLEAK_EXCEPTIONS_defined == FALSE

\* How device.update() and device.stop() end.
UpdateOutcomes == {"ok", "BleakError", "TimeoutError", "Exception"}
StopOutcomes == {"ok", "BleakError"}

\* The except clauses of async_step_user for the exception e of
\* device.update(): the exception that leaves the step, or errors["base"].
\* The expression of an except clause is evaluated when an exception
\* reaches it; an undefined name there raises NameError.
update_except(e) ==
    IF ~BLEAK_EXCEPTIONS_defined THEN [raises |-> "NameError", errors |-> "none"]
    ELSE IF e \in {"BleakError", "TimeoutError"}
         THEN [raises |-> "none", errors |-> "cannot_connect"]
         ELSE [raises |-> "none", errors |-> "unknown"]

\* The end of async_step_user for the devices dd and the errors e: abort
\* when there is no device, else the form.
show(dd, e) ==
    IF dd = {} THEN [type |-> "abort", reason |-> "no_devices_found"]
    ELSE [type |-> "form", errors |-> e]

InitFlow ==
    /\ Start /\ solo = FALSE /\ ArgsIdle /\ LightInit("glowswitch") /\ TwinInit
    /\ \E nm \in [Addresses -> LocalNames], cf \in SUBSET Addresses : FlowInit(nm, cf)
    /\ service_uuids \in [Addresses -> ServiceUuidLists]

\* async_step_bluetooth(discovery_info), async_step_user() included.  scan
\* is what async_discovered_service_info returns.
AsyncStepBluetooth(a, scan) ==
    /\ flow_pc = "init"
    /\ IF a \in configured
       THEN /\ flow_result' = [type |-> "abort", reason |-> "already_configured"]
            /\ flow_pc' = "done"
            /\ UNCHANGED << discovery_info, discovered_devices >>
       ELSE /\ discovery_info' = a
            /\ discovered_devices' =
                  discovered_devices \cup {a} \cup (scan \ configured)
            /\ flow_result' = show(discovered_devices', "none")
            /\ flow_pc' = "form"
    /\ UNCHANGED << names, service_uuids, configured, user_input, errors, entry, flow_events >>
    /\ UNCHANGED device_vars
    /\ UNCHANGED args_vars
    /\ UNCHANGED light_vars
    /\ UNCHANGED twin_vars

\* async_step_user() of a flow the user started.
AsyncStepUser(scan) ==
    /\ flow_pc = "init"
    /\ discovered_devices' = discovered_devices \cup (scan \ configured)
    /\ flow_result' = show(discovered_devices', "none")
    /\ flow_pc' = IF discovered_devices' = {} THEN "done" ELSE "form"
    /\ UNCHANGED << names, service_uuids, configured, discovery_info, user_input, errors, entry,
                    flow_events >>
    /\ UNCHANGED device_vars
    /\ UNCHANGED args_vars
    /\ UNCHANGED light_vars
    /\ UNCHANGED twin_vars

\* async_step_user(user_input) with the address a of the form, up to its
\* await of device.update().
AsyncStepUserInput(a) ==
    /\ flow_pc = "form"
    /\ a \in discovered_devices
    /\ user_input' = a
    /\ errors' = "none"
    /\ flow_events' = << >>
    /\ IF a \in configured
       THEN /\ flow_result' = [type |-> "abort", reason |-> "already_configured"]
            /\ flow_pc' = "done"
       ELSE /\ flow_result' = [type |-> "none"]
            /\ flow_pc' = "update"
    /\ UNCHANGED << names, service_uuids, configured, discovery_info, discovered_devices, entry >>
    /\ UNCHANGED device_vars
    /\ UNCHANGED args_vars
    /\ UNCHANGED light_vars
    /\ UNCHANGED twin_vars

\* device.update() returned or raised.
UpdateDone(outcome) ==
    /\ flow_pc = "update"
    /\ flow_events' = Append(flow_events, "update_" \o outcome)
    /\ IF outcome = "ok"
       THEN /\ flow_pc' = "stop"
            /\ UNCHANGED << flow_result, errors, discovered_devices >>
       ELSE LET r == update_except(outcome) IN
            /\ flow_pc' = "form"
            /\ IF r.raises # "none"
               THEN /\ flow_result' = [type |-> "raise", exc |-> r.raises]
                    /\ UNCHANGED << errors, discovered_devices >>
               ELSE /\ errors' = r.errors
                    /\ discovered_devices' =
                          discovered_devices \cup ({discovery_info} \ {NoDevice})
                    /\ flow_result' = show(discovered_devices', r.errors)
    /\ UNCHANGED << names, service_uuids, configured, discovery_info, user_input, entry >>
    /\ UNCHANGED device_vars
    /\ UNCHANGED args_vars
    /\ UNCHANGED light_vars
    /\ UNCHANGED twin_vars

\* device.stop() returned or raised; async_create_entry.
StopDone(outcome) ==
    /\ flow_pc = "stop"
    /\ flow_events' = Append(flow_events, "stop_" \o outcome)
    /\ IF outcome = "ok"
       THEN /\ entry' = [type |-> "entry", title |-> names[user_input],
                         address |-> user_input,
                         device_type |-> device_type_of(names[user_input])]
            /\ configured' = configured \cup {user_input}
            /\ flow_result' = [type |-> "create_entry"]
            /\ flow_pc' = "done"
       ELSE /\ flow_result' = [type |-> "raise", exc |-> outcome]
            /\ flow_pc' = "form"
            /\ UNCHANGED << entry, configured >>
    /\ UNCHANGED << names, service_uuids, discovery_info, discovered_devices, user_input, errors >>
    /\ UNCHANGED device_vars
    /\ UNCHANGED args_vars
    /\ UNCHANGED light_vars
    /\ UNCHANGED twin_vars

NextFlow ==
    \/ \E a \in Addresses, scan \in SUBSET Addresses : AsyncStepBluetooth(a, scan)
    \/ \E scan \in SUBSET Addresses : AsyncStepUser(scan)
    \/ \E a \in Addresses : AsyncStepUserInput(a)
    \/ \E outcome \in UpdateOutcomes : UpdateDone(outcome)
    \/ \E outcome \in StopOutcomes : StopDone(outcome)

SpecFlow == InitFlow /\ [][NextFlow]_vars

-----------------------------------------------------------------------------
(* Vocabulary of the properties. *)

\* The transport contexts that are open: entered and not yet exited.
OpenContexts == client_stack \cup UNION {closing[t] : t \in Tasks}

\* The tasks with a connect attempt in flight.
Connecting == {t \in Tasks : pc[t] = "connecting"}

\* t is inside a connect attempt of get_client: entering the context, or in
\* the cleanup get_client runs when the attempt did not give a live client.
InAttempt(t) ==
    \/ pc[t] = "connecting"
    \/ pc[t] \in {"disc_wait", "close_wait"} /\ ret[t] \in {"notconn", "except"}

\* In this step t takes the lock in get_client and runs its body.
TakesLockInGetClient(t) ==
    \/ pc[t] = "lock_wait" /\ site[t] = "get_client" /\ pc'[t] # "lock_wait"
    \/ /\ pc[t] = "idle" /\ pc'[t] \notin {"idle", "lock_wait"}
       /\ op'[t] \in {"write", "read", "get_client"}
       /\ result'[t] # "ValueError"
    \/ pc[t] = "sleep" /\ pc'[t] \notin {"sleep", "lock_wait"}

\* The number of events e in the sequence q.
RECURSIVE Count(_, _)
Count(q, e) ==
    IF q = << >> THEN 0
    ELSE (IF Head(q) = e THEN 1 ELSE 0) + Count(Tail(q), e)

\* The place of the first event of the set E in q, 0 when there is none.
RECURSIVE FirstAt(_, _, _)
FirstAt(q, E, i) ==
    IF i > Len(q) THEN 0 ELSE IF q[i] \in E THEN i ELSE FirstAt(q, E, i + 1)

\* The events of q after place i.
After(q, i) == SubSeq(q, i + 1, Len(q))

\* q starts with p.
StartsWith(q, p) == Len(p) <= Len(q) /\ SubSeq(q, 1, Len(p)) = p

DisconnectEvents ==
    {"disconnect_stop", "disconnect_handler", "disconnect_stale",
     "disconnect_notconn", "disconnect_except"}

\* The disconnect() calls in q.
RECURSIVE CountIn(_, _)
CountIn(q, E) ==
    IF q = << >> THEN 0
    ELSE (IF Head(q) \in E THEN 1 ELSE 0) + CountIn(Tail(q), E)

\* t's call is write_gatt or read_gatt and has just ended.
GattCallDone(t) == pc[t] = "done" /\ op[t] \in {"write", "read"}

-----------------------------------------------------------------------------
(* C1.  No characteristic read or write is in flight on a client that a     *)
(* disconnect() has torn down: while a task's GATT call is in flight, its   *)
(* client is still self._client and its context is still on the stack.      *)
C1_GattOnlyOnCurrentClient ==
    \A t \in Tasks :
        pc[t] = "gatt" => local_client[t] = client /\ local_client[t] \in client_stack

C3_OneConnectUnderLock ==
    /\ Cardinality(Connecting) <= 1
    /\ \A t \in Tasks : InAttempt(t) => lock = t

\* One task connects while the other waits for the lock in get_client.
C3_Witness ==
    \E t, u \in Tasks :
        pc[t] = "connecting" /\ pc[u] = "lock_wait" /\ site[u] = "get_client"

(* C4.  As get_client() ends: it returned the client that is now            *)
(* self._client, which reports connected and whose context is the one on    *)
(* the stack; or it raised, and self._client is None, the stack is empty    *)
(* and no context is left open.                                             *)
C4_GetClientLiveOrReset ==
    \A t \in Tasks :
        pc[t] = "done" /\ op[t] = "get_client" =>
            IF result[t] = "ok"
            THEN /\ local_client[t] # None
                 /\ local_client[t] = client
                 /\ client \in is_connected
                 /\ client_stack = {client}
            ELSE /\ client = None
                 /\ OpenContexts = {}
                 /\ \A u \in Tasks : pending[u] = None

\* get_client raised while the other task has a call under way.
C4_Witness ==
    \E t, u \in Tasks :
        /\ pc[t] = "done" /\ op[t] = "get_client" /\ result[t] = "IdealLedBleakError"
        /\ pc[u] \notin {"idle", "done"}

(* C5.  At most one transport context is open, and whenever the lock is     *)
(* free a context is open exactly when self._client is set, and it is that  *)
(* client's.                                                                *)
C5_NoLeakedContext ==
    /\ Cardinality(OpenContexts) <= 1
    /\ lock = None => /\ (OpenContexts # {} <=> client # None)
                      /\ OpenContexts \subseteq {client}

\* The lock is free, a context is open, and a task is between two attempts.
C5_Witness ==
    /\ lock = None /\ client # None /\ OpenContexts = {client}
    /\ \E t \in Tasks : pc[t] = "sleep"

(* C6.  When get_client() takes the lock and self._client is set and        *)
(* reports connected, it returns that client in the same step: no connect   *)
(* attempt, no teardown, the client and the stack as they were.             *)
C6_ReuseLiveClient ==
    [][\A t \in Tasks :
          (TakesLockInGetClient(t) /\ client # None /\ client \in is_connected) =>
              /\ pc'[t] \in {"gatt", "done"}
              /\ pc'[t] = "done" => result'[t] = "ok"
              /\ local_client'[t] = client
              /\ client' = client
              /\ client_stack' = client_stack
              /\ is_connected' = is_connected
              /\ pending'[t] = None /\ closing'[t] = {}
              /\ lock' = None]_vars

\* Two GATT calls in flight on the one client: the second caller reused it.
C6_Witness ==
    \E t, u \in Tasks :
        /\ t # u /\ pc[t] = "gatt" /\ pc[u] = "gatt"
        /\ local_client[t] = client /\ local_client[u] = client

-----------------------------------------------------------------------------
(* Properties of one caller's calls, read off the events of the call.       *)

GattOutcomeEvents ==
    {"gatt_ok", "gatt_BleakError", "gatt_BleakErrorDiscovery", "gatt_TimeoutError"}

\* The outcome of the call's first characteristic call, "none" before it.
FirstGattOutcome(q) ==
    LET i == FirstAt(q, GattOutcomeEvents, 1) IN IF i = 0 THEN "none" ELSE q[i]

\* The events after the call's first characteristic call that raised a
\* BleakError.
AfterFirstBleakError(q) ==
    After(q, FirstAt(q, {"gatt_BleakError", "gatt_BleakErrorDiscovery"}, 1))

\* Calls of the client's service discovery.  device.py makes none, so no
\* such event is ever recorded.
ServiceDiscoveryCalls(q) == Count(q, "get_services")

\* What write_gatt / read_gatt does after a BleakError of a characteristic
\* call on its first attempt, up to the next connect attempt, and up to a
\* successful end.
ReleaseThenReconnect == << "disconnect_handler", "delay", "enter", "connect" >>
ReleaseThenSuccess == ReleaseThenReconnect \o << "ret", "gatt", "gatt_ok" >>

(* C7.  A get_client() that finds a client that reports not connected tears *)
(* it down and then makes exactly one connect attempt.                      *)
C7_StaleThenOneConnect ==
    \A t \in Tasks :
        (/\ pc[t] = "done" /\ op[t] = "get_client"
         /\ StartsWith(log[t], << "enter", "disconnect_stale" >>)) =>
            /\ Count(log[t], "connect") = 1
            /\ StartsWith(log[t], << "enter", "disconnect_stale", "connect" >>)

(* C8, as stated.  A write/read whose first characteristic call fails with  *)
(* a discovery-not-ready error and which then succeeds made 2 GATT calls    *)
(* and 1 service-discovery call on the same connection: no teardown, no     *)
(* delay, no connect attempt after the failure.                             *)
C8_DiscoveryRetriedInPlace ==
    \A t \in Tasks :
        (/\ GattCallDone(t) /\ result[t] = "ok"
         /\ FirstGattOutcome(log[t]) = "gatt_BleakErrorDiscovery") =>
            /\ Count(log[t], "gatt") = 2
            /\ ServiceDiscoveryCalls(log[t]) = 1
            /\ CountIn(AfterFirstBleakError(log[t]),
                       DisconnectEvents \cup {"delay", "connect"}) = 0

(* C8, amended.  Such a call made 2 GATT calls and no service-discovery     *)
(* call; between the two it released the connection under the lock, waited  *)
(* one delay and connected again: the second call ran on the new client.    *)
C8_DiscoveryRetriedByReconnect ==
    \A t \in Tasks :
        (/\ GattCallDone(t) /\ result[t] = "ok"
         /\ FirstGattOutcome(log[t]) = "gatt_BleakErrorDiscovery") =>
            /\ Count(log[t], "gatt") = 2
            /\ ServiceDiscoveryCalls(log[t]) = 0
            /\ AfterFirstBleakError(log[t]) = ReleaseThenSuccess

\* A write that failed with the discovery error and then succeeded.
C8_Witness ==
    \E t \in Tasks :
        /\ GattCallDone(t) /\ op[t] = "write" /\ result[t] = "ok"
        /\ FirstGattOutcome(log[t]) = "gatt_BleakErrorDiscovery"

C10_PlainBleakErrorNotRetried ==
    \A t \in Tasks :
        (GattCallDone(t) /\ FirstGattOutcome(log[t]) = "gatt_BleakError") =>
            /\ result[t] # "ok"
            /\ Count(log[t], "gatt") = 1
            /\ CountIn(AfterFirstBleakError(log[t]), {"delay", "connect", "gatt"}) = 0

-----------------------------------------------------------------------------
(* The ends of write_gatt / read_gatt when attempts fail.                   *)

\* The errors get_client raises: its two connection errors, and the error
\* of a teardown that failed before its try block.
GetClientErrors == {"IdealLedTimeout", "IdealLedBleakError", "BleakError", "TimeoutError"}

RaiseEvents == {"raise_" \o k : k \in GetClientErrors}

\* The place of the last event of the set E in q, 0 when there is none.
RECURSIVE LastAt(_, _, _)
LastAt(q, E, i) ==
    IF i = 0 THEN 0 ELSE IF q[i] \in E THEN i ELSE LastAt(q, E, i - 1)

\* The error the call's last get_client() raised, "none" when none raised.
LastRaised(q) ==
    LET i == LastAt(q, RaiseEvents, Len(q)) IN
    IF i = 0 THEN "none" ELSE SubSeq(q[i], 7, Len(q[i]))

\* t's write_gatt / read_gatt has ended, and every get_client() of it made
\* a connect attempt that did not give a connected client.
EveryConnectFailed(t) ==
    /\ GattCallDone(t)
    /\ Count(log[t], "enter") >= 1
    /\ Count(log[t], "ret") = 0
    /\ Count(log[t], "connect") = Count(log[t], "enter")

(* C11, as stated.  When the connection fails to establish on every         *)
(* attempt, write_gatt raises RetriesExhausted, wrapping the last failure,  *)
(* after RETRY_ATTEMPTS connect attempts and RETRY_ATTEMPTS - 1 delays.     *)
C11_RaisesRetriesExhausted ==
    \A t \in Tasks :
        EveryConnectFailed(t) =>
            /\ result[t] = "RetriesExhausted"
            /\ Count(log[t], "connect") = RETRY_ATTEMPTS
            /\ Count(log[t], "delay") = RETRY_ATTEMPTS - 1

(* C11, amended.  When the connection fails to establish on every attempt,  *)
(* write_gatt / read_gatt raises the connection error of its last attempt   *)
(* itself (IdealLedTimeout or IdealLedBleakError, not wrapped), after       *)
(* RETRY_ATTEMPTS connect attempts and RETRY_ATTEMPTS - 1 delays.           *)
C11_RaisesLastConnectionError ==
    \A t \in Tasks :
        EveryConnectFailed(t) =>
            /\ IsConnectionError(result[t])
            /\ result[t] = LastRaised(log[t])
            /\ log[t][Len(log[t])] = "raise_" \o result[t]
            /\ Count(log[t], "connect") = RETRY_ATTEMPTS
            /\ Count(log[t], "delay") = RETRY_ATTEMPTS - 1

\* The first attempt timed out, the last one failed with a BleakError.
C11_Witness ==
    \E t \in Tasks :
        /\ EveryConnectFailed(t) /\ op[t] = "write"
        /\ Count(log[t], "raise_IdealLedTimeout") = 1
        /\ result[t] = "IdealLedBleakError"

\* The outcome of the call's last characteristic call, "none" before it.
LastGattOutcome(q) ==
    LET i == LastAt(q, GattOutcomeEvents, Len(q)) IN
    IF i = 0 THEN "none" ELSE SubSeq(q[i], 6, Len(q[i]))

\* t's write_gatt / read_gatt has ended; every attempt of it connected a
\* new client and issued its characteristic call on it, and every one of
\* these calls failed with a BleakError.
EveryWriteFailed(t) ==
    /\ GattCallDone(t)
    /\ Count(log[t], "gatt") >= 1
    /\ Count(log[t], "gatt") = Count(log[t], "enter")
    /\ Count(log[t], "gatt") = Count(log[t], "connect")
    /\ Count(log[t], "gatt_ok") = 0
    /\ Count(log[t], "gatt_TimeoutError") = 0

(* C12.  When every characteristic write of a call fails, the call raises   *)
(* the error of the last attempt's write, after one write on each of the    *)
(* RETRY_ATTEMPTS attempts and one delay before each retry.                 *)
C12_RaisesLastWriteError ==
    \A t \in Tasks :
        EveryWriteFailed(t) =>
            /\ result[t] = LastGattOutcome(log[t])
            /\ Count(log[t], "gatt") = RETRY_ATTEMPTS
            /\ Count(log[t], "delay") = RETRY_ATTEMPTS - 1

\* The events of the call's last attempt: from its last get_client() on.
LastAttempt(q) == After(q, LastAt(q, {"enter"}, Len(q)) - 1)

\* t's write_gatt / read_gatt has ended; an earlier attempt's characteristic
\* call failed with a BleakError, and get_client() raised in the last one.
WriteFailedThenConnectFailed(t) ==
    /\ GattCallDone(t)
    /\ FirstGattOutcome(log[t]) \in {"gatt_BleakError", "gatt_BleakErrorDiscovery"}
    /\ log[t][Len(log[t])] \in RaiseEvents

(* C13.  When an earlier attempt failed in its characteristic write and the *)
(* last attempt fails in get_client(), the call raises the error of that    *)
(* get_client(), a connection error and not the earlier BleakError:         *)
(* IdealLedTimeout when the connect attempt timed out.                      *)
C13_RaisesKindOfLastAttempt ==
    \A t \in Tasks :
        WriteFailedThenConnectFailed(t) =>
            /\ IsConnectionError(result[t])
            /\ result[t] = LastRaised(log[t])
            /\ Count(LastAttempt(log[t]), "connect_TimeoutError") = 1
                  => result[t] = "IdealLedTimeout"
            /\ Count(log[t], "gatt") = RETRY_ATTEMPTS - 1
            /\ Count(log[t], "delay") = RETRY_ATTEMPTS - 1

\* The write of the first attempt failed, the connect of the last timed out.
C13_Witness ==
    \E t \in Tasks :
        /\ WriteFailedThenConnectFailed(t) /\ op[t] = "write"
        /\ FirstGattOutcome(log[t]) = "gatt_BleakError"
        /\ LastAttempt(log[t]) =
              << "enter", "connect", "connect_TimeoutError", "disconnect_except",
                 "raise_IdealLedTimeout" >>
        /\ result[t] = "IdealLedTimeout"

\* The events of the attempts before the call's last one.
EarlierAttempts(q) == SubSeq(q, 1, LastAt(q, {"enter"}, Len(q)) - 1)

\* The disconnect() calls that follow the failures of the earlier attempts:
\* all but those get_client() makes for a stale client before it connects.
TeardownsAfterFailure(q) ==
    CountIn(EarlierAttempts(q), DisconnectEvents \ {"disconnect_stale"})

\* t's write_gatt / read_gatt has ended: it used up its budget of attempts
\* and the characteristic call of the last one succeeded.
LastAttemptSucceeded(t) ==
    /\ GattCallDone(t)
    /\ Count(log[t], "enter") = RETRY_ATTEMPTS
    /\ log[t][Len(log[t])] = "gatt_ok"

(* C14, as stated.  If the last attempt of the budget succeeds the call     *)
(* returns success, and each failed earlier attempt was followed by exactly *)
(* one teardown and one delay, whatever the kind of its failure.            *)
C14_OneTeardownPerFailedAttempt ==
    \A t \in Tasks :
        LastAttemptSucceeded(t) =>
            /\ result[t] = "ok"
            /\ TeardownsAfterFailure(log[t]) = RETRY_ATTEMPTS - 1
            /\ Count(log[t], "delay") = RETRY_ATTEMPTS - 1

(* C14, amended.  If the last attempt of the budget succeeds the call       *)
(* returns success; each failed earlier attempt was followed by one delay,  *)
(* and by one disconnect() call, or by two when its connect gave a client   *)
(* that reported not connected; during the delay the device is              *)
(* disconnected: no client, no open context.                                *)
C14_TeardownThenDelay ==
    \A t \in Tasks :
        /\ pc[t] = "sleep" => client = None /\ OpenContexts = {}
        /\ LastAttemptSucceeded(t) =>
              /\ result[t] = "ok"
              /\ Count(log[t], "delay") = RETRY_ATTEMPTS - 1
              /\ TeardownsAfterFailure(log[t]) =
                    (RETRY_ATTEMPTS - 1) + Count(log[t], "connect_not_connected")

\* The first attempt's connect gave a client that was not connected, the
\* last attempt succeeded.
C14_Witness ==
    \E t \in Tasks :
        /\ LastAttemptSucceeded(t) /\ op[t] = "write"
        /\ Count(log[t], "connect_not_connected") = 1

\* What a call on a disconnected device does when its connect and its
\* characteristic call succeed.
ConnectThenSuccess == << "enter", "connect", "ret", "gatt", "gatt_ok" >>

(* C15.  A write_gatt / read_gatt on a disconnected device whose connect    *)
(* and characteristic call both succeed made exactly one connect attempt    *)
(* and one characteristic call, no delay and no teardown, and leaves the    *)
(* client it connected in self._client with its context open.               *)
C15_OneConnectOneWrite ==
    \A t \in Tasks :
        (GattCallDone(t) /\ StartsWith(log[t], ConnectThenSuccess)) =>
            /\ result[t] = "ok"
            /\ Count(log[t], "connect") = 1
            /\ Count(log[t], "gatt") = 1
            /\ Count(log[t], "delay") = 0
            /\ CountIn(log[t], DisconnectEvents) = 0
            /\ client # None
            /\ client = local_client[t]
            /\ client_stack = {client}
            /\ closing[t] = {}
            /\ lock = None

\* A write on the disconnected device has just succeeded at its first try.
C15_Witness ==
    \E t \in Tasks :
        /\ GattCallDone(t) /\ op[t] = "write" /\ log[t] = ConnectThenSuccess
        /\ client \in is_connected

-----------------------------------------------------------------------------
(* stop(), disconnect(), and the members that do not touch the connection. *)

\* The device is Disconnected: no client, no context open or being closed.
Disconnected == client = None /\ OpenContexts = {}

(* C16.  stop() never raises and leaves the device Disconnected: when there *)
(* is no connection, when it is called twice in a row, and when the         *)
(* client's disconnect or the teardown of its context fails.                *)
C16_StopNeverRaises ==
    \A t \in Tasks :
        (pc[t] = "done" /\ op[t] = "stop") => result[t] = "ok" /\ Disconnected

(* C17.  disconnect() clears the handle unconditionally.  When it goes on  *)
(* from self._client.disconnect(), which returned or raised, and when it    *)
(* starts to close the contexts, self._client is None and the exit stack    *)
(* is empty, its contexts popped; so they are when it ends.  A stop() on a  *)
(* device that is already disconnected returns at once and changes nothing. *)
C17_DisconnectClearsHandle ==
    [][\A t \in Tasks :
          /\ (pc[t] = "disc_wait" /\ pc'[t] # "disc_wait") =>
                client' = None /\ client_stack' = {}
          /\ (pc[t] # "close_wait" /\ pc'[t] = "close_wait") =>
                /\ client' = None /\ client_stack' = {}
                /\ closing'[t] # {} /\ client_stack \subseteq closing'[t]
          /\ (pc[t] = "close_wait" /\ pc'[t] # "close_wait") =>
                client' = None /\ client_stack' = {} /\ closing'[t] = {}
          /\ (/\ pc[t] = "idle" /\ op'[t] = "stop" /\ pc'[t] # "lock_wait"
              /\ Disconnected) =>
                /\ pc'[t] = "done" /\ result'[t] = "ok"
                /\ UNCHANGED << client, client_stack, closing, is_connected, lock >>]_vars

\* stop() closes the context, the handle already cleared, while the other
\* task's characteristic call is in flight.
C17_Witness ==
    \E t, u \in Tasks :
        /\ pc[t] = "close_wait" /\ ret[t] = "stop" /\ client = None
        /\ pc[u] = "gatt"

(* C18.  A read or write that follows update_from_advertisement() makes a  *)
(* fresh connect attempt in its first get_client(): a connection that was   *)
(* live before is not reused.                                               *)
C18_AdvertisementForcesReconnect ==
    \A t \in Tasks :
        (/\ GattCallDone(t) /\ prev[t] = "update_from_advertisement"
         /\ result[t] # "ValueError") =>
            /\ log[t][2] # "ret"
            /\ Count(SubSeq(log[t], 1, 3), "connect") = 1

(* C19.  update() never raises, and when no connection is live it acquires  *)
(* one: as it ends the client is connected, or a connect attempt was made.  *)
C19_UpdateAcquiresConnection ==
    \A t \in Tasks :
        (pc[t] = "done" /\ op[t] = "update") =>
            /\ result[t] = "ok"
            /\ \/ client # None /\ client \in is_connected
               \/ Count(log[t], "connect") >= 1

(* C20.  Reading connected gives True exactly when self._client is set and  *)
(* reports connected; the read ends in the step it starts in, whoever holds *)
(* the lock, and changes nothing of the device or of the other tasks.       *)
C20_ConnectedIsPureSnapshot ==
    [][\A t \in Tasks :
          (pc[t] = "idle" /\ pc'[t] # "idle" /\ op'[t] = "connected") =>
              /\ pc'[t] = "done"
              /\ result'[t] = IF client # None /\ client \in is_connected
                              THEN "True" ELSE "False"
              /\ UNCHANGED << client, client_stack, lock, waiters, is_connected,
                              pending, closing, local_client, attempt >>
              /\ \A u \in Tasks \ {t} : pc'[u] = pc[u]]_vars

\* connected was read as False while the other task, holding the lock, is
\* connecting.
C20_Witness ==
    \E t, u \in Tasks :
        /\ pc[t] = "done" /\ op[t] = "connected" /\ result[t] = "False"
        /\ lock = u /\ pc[u] = "connecting"

-----------------------------------------------------------------------------
(* The arguments of write_gatt / read_gatt.                                 *)

\* The arguments args of the call o are malformed: the UUID does not
\* parse, or the payload of a write is not hex.
Malformed(o, args) ==
    \/ target_uuid_of(args[1]).raises # "none"
    \/ o = "write" /\ fromhex(args[2]).raises # "none"

(* C21.  A write_gatt / read_gatt with a malformed UUID, or a write_gatt    *)
(* with a payload that is not hex, raises ValueError in the step it is      *)
(* called in: no lock taken or waited for, no connect attempt, no GATT      *)
(* call, no attempt counted, and the client, the exit stack and the lock    *)
(* as they were.                                                            *)
C21_MalformedInputFailsFast ==
    [][\A t \in Tasks :
          (/\ pc[t] = "idle" /\ pc'[t] # "idle" /\ op'[t] \in {"write", "read"}
           /\ Malformed(op'[t], input'[t])) =>
              /\ pc'[t] = "done"
              /\ result'[t] = "ValueError"
              /\ attempt'[t] = 0 /\ log'[t] = << >>
              /\ UNCHANGED << client, client_stack, lock, waiters, is_connected,
                              pending, closing >>]_vars

\* A write with a valid UUID and a payload that is not hex has raised while
\* the other task, holding the lock, is connecting.
C21_Witness ==
    \E t, u \in Tasks :
        /\ pc[t] = "done" /\ op[t] = "write" /\ result[t] = "ValueError"
        /\ target_uuid_of(input[t][1]).raises = "none"
        /\ lock = u /\ pc[u] = "connecting"

\* The elements of the sequence q.
Range(q) == {q[i] : i \in 1 .. Len(q)}

(* C22.  For every valid UUID u, a call that passes u wrapped in braces    *)
(* parses, and its target_uuid is the one a call that passes u gets.        *)
C22_BracesMakeNoDifference ==
    (step # "called" /\ braces_in /\ target_uuid_of(uuid_in).raises = "none") =>
        /\ target_uuid.raises = "none"
        /\ target_uuid = target_uuid_of(uuid_in)
        /\ Len(target_uuid.value) = 32

\* The characteristic of light.py, passed in braces, has been parsed.
C22_Witness ==
    /\ step = "parsed" /\ braces_in
    /\ uuid_in = Str("12345678-1234-5678-1234-56789abcdef1")
    /\ target_uuid.raises = "none"

\* The str q in lower case, as far as hex digits go.
lower(q) ==
    [i \in 1 .. Len(q) |->
        CASE q[i] = "A" -> "a" [] q[i] = "B" -> "b" [] q[i] = "C" -> "c"
          [] q[i] = "D" -> "d" [] q[i] = "E" -> "e" [] q[i] = "F" -> "f"
          [] OTHER -> q[i]]

(* C23, as stated.  For every payload string write_gatt accepts, the bytes  *)
(* it transmitted, read back and encoded as hex, give the string again.     *)
C23_HexRoundTrip ==
    step = "read" => rehex = data_in

(* C23, amended.  The bytes read back and encoded as hex give the payload   *)
(* string in lower case with its whitespace removed: the string itself      *)
(* exactly when it is written in lower-case digits without whitespace.      *)
C23_HexRoundTripNormalizes ==
    step = "read" =>
        /\ rehex = lower(replace(data_in, Str(" ")))
        /\ rehex = data_in <=>
              \A i \in 1 .. Len(data_in) : data_in[i] \in Range(HexDigits)
        /\ fromhex(rehex) = data_as_bytes

\* A payload in upper case has gone round.
C23_Witness ==
    step = "read" /\ data_in = Str("AB") /\ rehex = Str("ab")

-----------------------------------------------------------------------------
(* C24.  No task holds the lock while its characteristic read or write is   *)
(* in flight.                                                               *)
C24_NoLockDuringGatt ==
    \A t \in Tasks : pc[t] = "gatt" => lock # t

\* A write and a read are in flight on the one connection, the lock free.
C24_Witness ==
    \E t, u \in Tasks :
        /\ op[t] = "write" /\ pc[t] = "gatt"
        /\ op[u] = "read" /\ pc[u] = "gatt"
        /\ local_client[t] = local_client[u] /\ client = local_client[t]
        /\ client \in is_connected
        /\ lock = None

-----------------------------------------------------------------------------
(* C25.  In a write_gatt / read_gatt every error get_client() raises is a   *)
(* connection error, IdealLedTimeout or IdealLedBleakError, and the         *)
(* BleakError clause (the forced release) handles only a failure of the     *)
(* characteristic call.                                                     *)
C25_FailureKindsNotConfused ==
    \A t \in Tasks :
        op[t] \in {"write", "read"} =>
            \A i \in 1 .. Len(log[t]) :
                /\ log[t][i] \in RaiseEvents =>
                      log[t][i] \in {"raise_IdealLedTimeout", "raise_IdealLedBleakError"}
                /\ log[t][i] = "disconnect_handler" =>
                      /\ i > 1
                      /\ log[t][i - 1] \in {"gatt_BleakError", "gatt_BleakErrorDiscovery"}

(* C26.  One write_gatt / read_gatt makes at most RETRY_ATTEMPTS calls of   *)
(* get_client(), at most RETRY_ATTEMPTS characteristic calls and at most    *)
(* RETRY_ATTEMPTS - 1 delays, and no delay after its last attempt; its      *)
(* attempt counter starts at zero: the n-th get_client() of the call is     *)
(* made with the counter at n - 1.                                          *)
C26_AttemptCeiling ==
    \A t \in Tasks :
        op[t] \in {"write", "read"} =>
            /\ attempt[t] \in 0 .. RETRY_ATTEMPTS - 1
            /\ Count(log[t], "enter") <= RETRY_ATTEMPTS
            /\ Count(log[t], "gatt") <= RETRY_ATTEMPTS
            /\ Count(log[t], "delay") <= RETRY_ATTEMPTS - 1
            /\ log[t] # << >> => Count(log[t], "enter") = attempt[t] + 1
            /\ Count(log[t], "delay") =
                  IF pc[t] = "sleep" THEN attempt[t] + 1 ELSE attempt[t]
            /\ pc[t] = "sleep" => attempt[t] < RETRY_ATTEMPTS - 1
            /\ (pc[t] = "done" /\ log[t] # << >>) => log[t][Len(log[t])] # "delay"

\* A write has used up its budget: every characteristic call failed.
C26_Witness ==
    \E t \in Tasks :
        /\ GattCallDone(t) /\ op[t] = "write" /\ result[t] = "BleakError"
        /\ Count(log[t], "gatt") = RETRY_ATTEMPTS
        /\ Count(log[t], "delay") = RETRY_ATTEMPTS - 1
        /\ prev[t] = "write"

\* A call of the light whose write_gatt returned.
LightCallDone(o) ==
    light_pc = "idle" /\ light_op = o /\ write_outcome = "ok"

Nearest(v, b) ==
    LET diff == 255 * v - 100 * b IN
    2 * (IF diff < 0 THEN -diff ELSE diff) <= 255

\* C28: for a glowdim light, async_turn_on with a brightness b in 0..255
\* writes the single byte round(b * 100 / 255), which lies in 0..100 (128
\* gives 50, 77 gives 30, 255 gives 100), and records b as the brightness.
C28_BrightnessToPercentByte ==
    (device_type = "glowdim" /\ light_op = "turn_on" /\ kwargs # NoBrightness) =>
        /\ Len(written) = 1
        /\ written[1][1] = LightCharacteristic
        /\ \E v \in 0 .. 100 :
              /\ Transmitted(1) = Returns(<< v >>)
              /\ Nearest(v, kwargs)
              /\ kwargs = 128 => v = 50
              /\ kwargs = 77 => v = 30
              /\ kwargs = 255 => v = 100
        /\ brightness = kwargs

C28_Witness ==
    /\ device_type = "glowdim"
    /\ LightCallDone("turn_on")
    /\ kwargs = 77 /\ brightness = 77
    /\ Transmitted(1) = Returns(<< 30 >>)

\* C29: for a glowdim light, only async_turn_on with an explicit brightness
\* changes the stored brightness, which is 255 initially: async_turn_off
\* leaves it unchanged, and async_turn_on without a brightness leaves it
\* unchanged and writes the value that belongs to it.
C29_BrightnessFrame ==
    /\ device_type = "glowdim" => brightness = MaxBrightness
    /\ [][device_type = "glowdim" =>
            /\ brightness' # brightness =>
                  /\ light_pc = "idle" /\ light_op' = "turn_on"
                  /\ kwargs' # NoBrightness /\ brightness' = kwargs'
            /\ (light_pc = "idle" /\ light_op' = "turn_off") =>
                  brightness' = brightness
            /\ (light_pc = "idle" /\ light_op' = "turn_on" /\ kwargs' = NoBrightness) =>
                  /\ brightness' = brightness
                  /\ \E v \in 0 .. 100 :
                        /\ fromhex(written'[1][2]) = Returns(<< v >>)
                        /\ Nearest(v, brightness)]_vars

C29_Witness ==
    /\ device_type = "glowdim"
    /\ LightCallDone("turn_on")
    /\ kwargs = NoBrightness /\ brightness = 77
    /\ is_on = "True"
    /\ Transmitted(1) = Returns(<< 30 >>)

\* C30: in the user step, an entry is created only after device.update()
\* succeeded and device.stop() was then called; when device.update() fails
\* with a Bleak connection error, no entry is created and the form is shown
\* again with the error base cannot_connect.
C30_EntryOnlyAfterUpdateAndStop ==
    /\ entry.type = "entry" => flow_events = << "update_ok", "stop_ok" >>
    /\ (flow_pc # "update" /\ flow_events = << "update_BleakError" >>) =>
          /\ entry.type = "none"
          /\ flow_result.type = "form"
          /\ flow_result.errors = "cannot_connect"

\* C31: the device_type of a created entry is glowdim when the selected
\* device advertises the Glowdim service UUID (with or without the
\* Glowswitch one), and glowswitch when it advertises no known service UUID
\* or none at all, whatever the device's name.
C31_DeviceTypeFromServiceUuids ==
    entry.type = "entry" =>
        LET advertised == service_uuids[entry.address] IN
        /\ "GLOWDIM_SERVICE_UUID" \in advertised => entry.device_type = "glowdim"
        /\ advertised \cap {"GLOWDIM_SERVICE_UUID", "GLOWSWITCH_SERVICE_UUID"} = {} =>
              entry.device_type = "glowswitch"

\* The task t is inside disconnect().
InDisconnect(t) == pc[t] \in {"disc_wait", "close_wait"}

\* C32: with concurrent write_gatt, read_gatt and stop callers and transport
\* primitives that all return or raise, every call eventually returns or
\* raises; no caller waits for the lock while it holds it, and disconnect()
\* runs only with the lock held by its caller.
C32_EveryCallEnds ==
    /\ [](\A t \in Tasks :
            /\ (pc[t] = "lock_wait" \/ t \in Range(waiters)) => lock # t
            /\ InDisconnect(t) => lock = t)
    /\ \A t \in Tasks : (pc[t] # "idle") ~> (pc[t] = "done")

\* A caller waits for the lock while another one, in the teardown after its
\* failed GATT call, holds it.
C32_Witness ==
    \E t, u \in Tasks :
        /\ pc[t] = "lock_wait" /\ Head(waiters) = t
        /\ lock = u /\ pc[u] = "close_wait" /\ ret[u] = "handler"

\* In this step t, whose GATT call failed on local_client[t], enters the
\* disconnect() of its except clause with the lock taken.
HandlerTeardownStarts(t) ==
    /\ \/ pc[t] = "gatt"
       \/ pc[t] = "lock_wait" /\ site[t] = "handler"
    /\ lock'= t
    /\ \/ InDisconnect(t)' /\ ret'[t] = "handler"
       \/ Count(log'[t], "disconnect_handler") > Count(log[t], "disconnect_handler")

\* C33: the teardown a write_gatt / read_gatt runs after its own GATT failure
\* closes only the connection its call failed on: never a newer connection
\* that another caller established after that one was released.
C33_TeardownOnlyOwnConnection ==
    [][\A t \in Tasks :
          (HandlerTeardownStarts(t) /\ client # None) => client = local_client[t]]_vars

\* C34: once stop() has returned, and until a write_gatt or read_gatt is
\* called after it, the device stays Disconnected and no connect attempt is
\* made: a call that was in progress when stop() ran connects no more.
C34_StopIsFinal ==
    stopped => Disconnected /\ \A t \in Tasks : pc[t] # "connecting"

\* C35: read_gatt and write_gatt are the same retry machine.  Fed the same
\* transport outcomes, the two calls are at the same place at every step,
\* have made the same connect attempts, characteristic calls, teardowns
\* and delays, leave the same client, stack and lock, and end in the same
\* way; they differ in the method called and its arguments only.
C35_ReadIsWrite ==
    /\ twin_r = [twin_w EXCEPT !.op = twin_r.op, !.input = twin_r.input,
                                !.prev = twin_r.prev]
    /\ twin_w.op[TwinTask] \in {"none", "write"}
    /\ twin_r.op[TwinTask] = "read" <=> twin_w.op[TwinTask] = "write"

\* Both calls have ended with the error of the last characteristic call,
\* after a teardown, a delay and a second attempt that failed too.
C35_Witness ==
    /\ TwinPc(twin_w) = "done" /\ TwinPc(twin_r) = "done"
    /\ twin_w.op[TwinTask] = "write" /\ twin_r.op[TwinTask] = "read"
    /\ twin_r.result[TwinTask] = "BleakError"
    /\ Count(twin_r.log[TwinTask], "delay") = 1
    /\ Count(twin_r.log[TwinTask], "disconnect_handler") = RETRY_ATTEMPTS
    /\ twin_w.log = twin_r.log

\* C36: when a write_gatt / read_gatt of the only caller raises, the device
\* is left Disconnected: self._client is None and no context is open,
\* whether get_client() failed last or the characteristic call of the last
\* attempt did.
C36_RaisesLeaveDisconnected ==
    \A t \in Tasks :
        (GattCallDone(t) /\ result[t] \notin {"ok", "ValueError"}) => Disconnected

\* C37: in the light, is_on changes and the state is published only when
\* the device write has succeeded; when write_gatt raises in async_turn_on
\* or async_turn_off, the call returns to its caller without raising, is_on
\* keeps its value and no state is published.
C37_LightAbsorbsWriteErrors ==
    [][/\ (is_on' # is_on \/ published' > published) =>
             light_pc = "writing" /\ write_outcome' = "ok"
       /\ (light_pc = "writing" /\ write_outcome' = "raised") =>
             /\ light_pc' = "idle" /\ light_result' = "ok"
             /\ is_on' = is_on
             /\ published' = 0]_vars

\* A turn-off whose write failed: the light still says it is on.
C37_Witness ==
    /\ light_pc = "idle" /\ light_op = "turn_off"
    /\ write_outcome = "raised" /\ light_result = "ok"
    /\ is_on = "True" /\ published = 0

====
